---- MODULE Spec2Model ----
(***************************************************************************)
(* Model of examples/with_refresh_token.rs: main obtains a refresh token   *)
(* interactively (session one) and then twice (sessions two and three)     *)
(* exchanges it for an access token, builds a client from it and follows,  *)
(* lists and unfollows three artists.  Every `.expect` of the source is a  *)
(* panic that ends the program.  The token endpoint and the REST service   *)
(* are modelled from the design document, as the library and the service   *)
(* are not part of the example.                                            *)
(***************************************************************************)
EXTENDS Integers, Sequences, FiniteSets, TLC

VARIABLES pc, session, refresh_token, spotify, validRT, validAT, nextTok,
          followed, log, panicMsg

vars == <<pc, session, refresh_token, spotify, validRT, validAT, nextTok,
          followed, log, panicMsg>>

\* ---------------------------------------------------------------- constants

\* do_things: the three artist ids of the sample request
artists == {"3RGLhK1IP9jnYFH4BRFJBS", "0yNLKJebCb8Aueb54LYya3", "2jzc5TC5TVFLXQlBNiIUzE"}

\* artists the user may follow besides the ones of the sample request
OtherArtists == {"other1", "other2"}

AllArtists == artists \cup OtherArtists

\* number of items of the page the service returns when no limit is given
DefaultLimit == 4

\* main runs sessions one, two and three
LastSession == 3

\* the absent token: Option::None, or the empty string of the design document
NoToken == 0

NoClient == [built |-> FALSE, access |-> NoToken, refresh |-> NoToken]

MsgAuth == "couldn't authenticate successfully"
MsgNoRefresh == "couldn't obtain a refresh token"
MsgRefresh == "couldn't refresh access token with the refresh token"
MsgFollow == "couldn't follow artists"
MsgList == "couldn't get user followed artists"
MsgUnfollow == "couldn't unfollow artists"

\* ------------------------------------------------- token endpoint and service

\* authorize_interactive: the result of the authorization-code exchange
AuthorizeOutcome(net, consent) ==
  IF ~net THEN "NetworkError"
  ELSE IF ~consent THEN "UserDenied"
  ELSE "Ok"

\* refresh, with the provider's rejection reported as a transport failure
RefreshOutcomeGeneric(rt, valid, net) ==
  IF ~net \/ rt \notin valid THEN "NetworkError" ELSE "Ok"

\* refresh: the result of exchanging refresh token rt
RefreshOutcome(rt, valid, net) ==
  IF ~net THEN "NetworkError"
  ELSE IF rt \notin valid THEN "InvalidGrant"
  ELSE "Ok"

\* a REST operation, with the rejected access token reported as a transport
\* failure
ApiOutcomeGeneric(at, valid, net, throttled) ==
  IF ~net \/ at \notin valid THEN "NetworkError"
  ELSE IF throttled THEN "RateLimited"
  ELSE "Ok"

\* a REST operation issued with access token at
ApiOutcome(at, valid, net, throttled) ==
  IF ~net THEN "NetworkError"
  ELSE IF at \notin valid THEN "Unauthorized"
  ELSE IF throttled THEN "RateLimited"
  ELSE "Ok"

\* the pages the service may return for a request without cursor and limit:
\* DefaultLimit of the followed artists (all of them when there are fewer), in
\* an order the service chooses
Pages(fs) ==
  {p \in SUBSET fs :
     Cardinality(p) = IF Cardinality(fs) < DefaultLimit THEN Cardinality(fs)
                      ELSE DefaultLimit}

\* one call of the program, as the token endpoint or the service saw it
Call(op, tok, valid, net, throttled, res, newAT, newRT, page) ==
  [op |-> op, session |-> session, tok |-> tok, valid |-> valid, net |-> net,
   throttled |-> throttled, res |-> res, newAT |-> newAT, newRT |-> newRT,
   before |-> followed, page |-> page]

\* `.expect(msg)` on an Err or a None
Panic(msg) ==
  /\ pc' = "panic"
  /\ panicMsg' = msg

\* --------------------------------------------------------------------- Init

Init ==
  /\ pc = "auth"
  /\ session = 1
  /\ refresh_token = NoToken
  /\ spotify = NoClient
  /\ validRT = {}
  /\ validAT = {}
  /\ nextTok = 1
  /\ followed \in SUBSET AllArtists
  /\ log = <<>>
  /\ panicMsg = ""

\* ------------------------------------------------------------------ actions

\* get_refresh_token: session one
GetRefreshToken ==
  /\ pc = "auth"
  /\ \E net \in BOOLEAN, consent \in BOOLEAN, grantsRT \in BOOLEAN :
       LET res == AuthorizeOutcome(net, consent)
           newAT == IF res = "Ok" THEN nextTok ELSE NoToken
           newRT == IF res = "Ok" /\ grantsRT THEN nextTok + 1 ELSE NoToken
       IN /\ log' = Append(log, Call("authorize", NoToken, {}, net, FALSE, res,
                                     newAT, newRT, {}))
          /\ validAT' = validAT \cup ({newAT} \ {NoToken})
          /\ validRT' = validRT \cup ({newRT} \ {NoToken})
          /\ nextTok' = IF res = "Ok" THEN nextTok + 2 ELSE nextTok
          /\ IF res # "Ok"
               THEN Panic(MsgAuth) /\ UNCHANGED <<session, refresh_token>>
               ELSE IF newRT = NoToken
                 THEN Panic(MsgNoRefresh) /\ UNCHANGED <<session, refresh_token>>
                 ELSE /\ refresh_token' = newRT
                      /\ session' = 2
                      /\ pc' = "refresh"
                      /\ UNCHANGED panicMsg
  /\ UNCHANGED <<spotify, followed>>

\* client_from_refresh_token, with the client built without the token_info
ClientFromRefreshTokenNoTokenInfo ==
  /\ pc = "refresh"
  /\ \E net \in BOOLEAN, reissue \in BOOLEAN :
       LET res == RefreshOutcome(refresh_token, validRT, net)
           newAT == IF res = "Ok" THEN nextTok ELSE NoToken
           newRT == IF res = "Ok" /\ reissue THEN nextTok + 1 ELSE NoToken
       IN /\ log' = Append(log, Call("refresh", refresh_token, validRT, net,
                                     FALSE, res, newAT, newRT, {}))
          /\ validAT' = validAT \cup ({newAT} \ {NoToken})
          /\ validRT' = validRT \cup ({newRT} \ {NoToken})
          /\ nextTok' = IF res = "Ok" THEN nextTok + 2 ELSE nextTok
          /\ IF res # "Ok"
               THEN Panic(MsgRefresh) /\ UNCHANGED spotify
               ELSE /\ spotify' = [built |-> TRUE, access |-> NoToken,
                                   refresh |-> NoToken]
                    /\ pc' = "follow"
                    /\ UNCHANGED panicMsg
  /\ UNCHANGED <<session, refresh_token, followed>>

\* client_from_refresh_token, with a failed exchange tried a second time
ClientFromRefreshTokenRetry ==
  /\ pc = "refresh"
  /\ \E net \in BOOLEAN, net2 \in BOOLEAN, reissue \in BOOLEAN :
       LET res1 == RefreshOutcome(refresh_token, validRT, net)
           res == IF res1 = "Ok" THEN res1
                  ELSE RefreshOutcome(refresh_token, validRT, net2)
           newAT == IF res = "Ok" THEN nextTok ELSE NoToken
           newRT == IF res = "Ok" /\ reissue THEN nextTok + 1 ELSE NoToken
           first == Call("refresh", refresh_token, validRT, net, FALSE, res1,
                         NoToken, NoToken, {})
           last == Call("refresh", refresh_token, validRT,
                        IF res1 = "Ok" THEN net ELSE net2, FALSE, res, newAT,
                        newRT, {})
       IN /\ log' = IF res1 = "Ok" THEN Append(log, last)
                    ELSE Append(Append(log, first), last)
          /\ validAT' = validAT \cup ({newAT} \ {NoToken})
          /\ validRT' = validRT \cup ({newRT} \ {NoToken})
          /\ nextTok' = IF res = "Ok" THEN nextTok + 2 ELSE nextTok
          /\ IF res # "Ok"
               THEN Panic(MsgRefresh) /\ UNCHANGED spotify
               ELSE /\ spotify' = [built |-> TRUE, access |-> newAT,
                                   refresh |-> newRT]
                    /\ pc' = "follow"
                    /\ UNCHANGED panicMsg
  /\ UNCHANGED <<session, refresh_token, followed>>

\* client_from_refresh_token, with the caller's refresh token overwritten by
\* the refresh_token field of the returned token_info
ClientFromRefreshTokenStoreReturned ==
  /\ pc = "refresh"
  /\ \E net \in BOOLEAN, reissue \in BOOLEAN :
       LET res == RefreshOutcome(refresh_token, validRT, net)
           newAT == IF res = "Ok" THEN nextTok ELSE NoToken
           newRT == IF res = "Ok" /\ reissue THEN nextTok + 1 ELSE NoToken
       IN /\ log' = Append(log, Call("refresh", refresh_token, validRT, net,
                                     FALSE, res, newAT, newRT, {}))
          /\ validAT' = validAT \cup ({newAT} \ {NoToken})
          /\ validRT' = validRT \cup ({newRT} \ {NoToken})
          /\ nextTok' = IF res = "Ok" THEN nextTok + 2 ELSE nextTok
          /\ IF res # "Ok"
               THEN Panic(MsgRefresh) /\ UNCHANGED <<spotify, refresh_token>>
               ELSE /\ spotify' = [built |-> TRUE, access |-> newAT,
                                   refresh |-> newRT]
                    /\ refresh_token' = newRT
                    /\ pc' = "follow"
                    /\ UNCHANGED panicMsg
  /\ UNCHANGED <<session, followed>>

\* client_from_refresh_token: sessions two and three
ClientFromRefreshToken ==
  /\ pc = "refresh"
  /\ \E net \in BOOLEAN, reissue \in BOOLEAN :
       LET res == RefreshOutcome(refresh_token, validRT, net)
           newAT == IF res = "Ok" THEN nextTok ELSE NoToken
           newRT == IF res = "Ok" /\ reissue THEN nextTok + 1 ELSE NoToken
       IN /\ log' = Append(log, Call("refresh", refresh_token, validRT, net,
                                     FALSE, res, newAT, newRT, {}))
          /\ validAT' = validAT \cup ({newAT} \ {NoToken})
          /\ validRT' = validRT \cup ({newRT} \ {NoToken})
          /\ nextTok' = IF res = "Ok" THEN nextTok + 2 ELSE nextTok
          /\ IF res # "Ok"
               THEN Panic(MsgRefresh) /\ UNCHANGED spotify
               ELSE /\ spotify' = [built |-> TRUE, access |-> newAT,
                                   refresh |-> newRT]
                    /\ pc' = "follow"
                    /\ UNCHANGED panicMsg
  /\ UNCHANGED <<session, refresh_token, followed>>

\* the followed artists after the service performed op on ids
ServiceEffect(op, ids, fs) ==
  IF op = "follow" THEN fs \cup ids
  ELSE IF op = "unfollow" THEN fs \ ids
  ELSE fs

\* one awaited request of do_things and the `.expect(msg)` on its result
Rest(op, ids, msg, next) ==
  \E net \in BOOLEAN, throttled \in BOOLEAN :
    LET res == ApiOutcome(spotify.access, validAT, net, throttled)
    IN \E page \in (IF res = "Ok" /\ op = "list" THEN Pages(followed) ELSE {{}}) :
         /\ log' = Append(log, Call(op, spotify.access, validAT, net, throttled,
                                    res, NoToken, NoToken, page))
         /\ followed' = IF res = "Ok" THEN ServiceEffect(op, ids, followed)
                        ELSE followed
         /\ IF res # "Ok"
              THEN Panic(msg) /\ UNCHANGED <<session, spotify>>
              ELSE IF next # "end"
                THEN pc' = next /\ UNCHANGED <<session, spotify, panicMsg>>
                ELSE \* do_things returns and drops the client it owned
                     /\ spotify' = NoClient
                     /\ pc' = IF session < LastSession THEN "refresh" ELSE "done"
                     /\ session' = IF session < LastSession THEN session + 1
                                   ELSE session
                     /\ UNCHANGED panicMsg

\* do_things, with only the first two artists of the vector followed
FollowSome ==
  /\ pc = "follow"
  /\ Rest("follow", {"3RGLhK1IP9jnYFH4BRFJBS", "0yNLKJebCb8Aueb54LYya3"},
          MsgFollow, "list")
  /\ UNCHANGED <<refresh_token, validRT, validAT, nextTok>>

\* do_things, with the result of user_follow_artists dropped instead of
\* expected
FollowIgnoreError ==
  /\ pc = "follow"
  /\ \E net \in BOOLEAN, throttled \in BOOLEAN :
       LET res == ApiOutcome(spotify.access, validAT, net, throttled)
       IN /\ log' = Append(log, Call("follow", spotify.access, validAT, net,
                                     throttled, res, NoToken, NoToken, {}))
          /\ followed' = IF res = "Ok" THEN followed \cup artists ELSE followed
          /\ pc' = "list"
  /\ UNCHANGED <<session, spotify, panicMsg, refresh_token, validRT, validAT,
                 nextTok>>

\* do_things: user_follow_artists(&artists)
Follow ==
  /\ pc = "follow"
  /\ Rest("follow", artists, MsgFollow, "list")
  /\ UNCHANGED <<refresh_token, validRT, validAT, nextTok>>

\* do_things: current_user_followed_artists(None, None)
List ==
  /\ pc = "list"
  /\ Rest("list", {}, MsgList, "unfollow")
  /\ UNCHANGED <<refresh_token, validRT, validAT, nextTok>>

\* do_things, with only the first two artists of the vector unfollowed
UnfollowSome ==
  /\ pc = "unfollow"
  /\ Rest("unfollow", {"3RGLhK1IP9jnYFH4BRFJBS", "0yNLKJebCb8Aueb54LYya3"},
          MsgUnfollow, "end")
  /\ UNCHANGED <<refresh_token, validRT, validAT, nextTok>>

\* do_things and main, with the client of session two kept for session three
\* instead of one built from a new exchange
UnfollowKeepClient ==
  /\ pc = "unfollow"
  /\ \E net \in BOOLEAN, throttled \in BOOLEAN :
       LET res == ApiOutcome(spotify.access, validAT, net, throttled)
       IN /\ log' = Append(log, Call("unfollow", spotify.access, validAT, net,
                                     throttled, res, NoToken, NoToken, {}))
          /\ followed' = IF res = "Ok" THEN followed \ artists ELSE followed
          /\ IF res # "Ok"
               THEN Panic(MsgUnfollow) /\ UNCHANGED session
               ELSE /\ pc' = IF session < LastSession THEN "follow" ELSE "done"
                    /\ session' = IF session < LastSession THEN session + 1
                                  ELSE session
                    /\ UNCHANGED panicMsg
  /\ UNCHANGED <<spotify, refresh_token, validRT, validAT, nextTok>>

\* do_things: user_unfollow_artists(&artists), then back to main
Unfollow ==
  /\ pc = "unfollow"
  /\ Rest("unfollow", artists, MsgUnfollow, "end")
  /\ UNCHANGED <<refresh_token, validRT, validAT, nextTok>>

\* the provider stops honouring the refresh token the caller stored (the
\* other tokens it issued are never presented again)
RevokeRefreshToken ==
  /\ pc \notin {"done", "panic"}
  /\ refresh_token \in validRT
  /\ validRT' = validRT \ {refresh_token}
  /\ UNCHANGED <<pc, session, refresh_token, spotify, validAT, nextTok,
                 followed, log, panicMsg>>

\* the short-lived access token of the client reaches its expires_at
ExpireAccessToken ==
  /\ pc \notin {"done", "panic"}
  /\ spotify.built
  /\ spotify.access \in validAT
  /\ validAT' = validAT \ {spotify.access}
  /\ UNCHANGED <<pc, session, refresh_token, spotify, validRT, nextTok,
                 followed, log, panicMsg>>

Next ==
  \/ GetRefreshToken
  \/ ClientFromRefreshToken
  \/ Follow
  \/ List
  \/ Unfollow
  \/ RevokeRefreshToken
  \/ ExpireAccessToken

Spec == Init /\ [][Next]_vars

\* ------------------------------------------------------------------- claims

Idx == 1..Len(log)

RestOps == {"follow", "list", "unfollow"}

\* the message of the `.expect` that guards op
MsgOf(e) ==
  IF e.op = "authorize" THEN (IF e.res = "Ok" THEN MsgNoRefresh ELSE MsgAuth)
  ELSE IF e.op = "refresh" THEN MsgRefresh
  ELSE IF e.op = "follow" THEN MsgFollow
  ELSE IF e.op = "list" THEN MsgList
  ELSE MsgUnfollow

\* the followed artists right after call i
After(i) == IF i = Len(log) THEN followed ELSE log[i + 1].before

\* C1 as stated: every refresh with a refresh token the provider honours
\* succeeds with a non-empty access token, and the follow_artists issued with
\* it succeeds; the refreshes of sessions two and three both succeed.
C1_AsStated ==
  \A i \in Idx :
    (log[i].op = "refresh" /\ log[i].tok \in log[i].valid) =>
      /\ log[i].res = "Ok"
      /\ log[i].newAT # NoToken
      /\ (i + 1 \in Idx => log[i + 1].res = "Ok")

\* C1 amended: every refresh with a refresh token the provider honours at
\* that time, and whose transport succeeds, succeeds with a non-empty access
\* token; the next request is follow_artists, and it succeeds whenever it
\* reaches the service unthrottled while that access token is unexpired.
C1_RefreshRepeatable ==
  \A i \in Idx :
    (log[i].op = "refresh" /\ log[i].tok \in log[i].valid /\ log[i].net) =>
      /\ log[i].res = "Ok"
      /\ log[i].newAT # NoToken
      /\ (i + 1 \in Idx =>
            /\ log[i + 1].op = "follow"
            /\ ((log[i].newAT \in log[i + 1].valid /\ log[i + 1].net
                   /\ ~log[i + 1].throttled)
                  => log[i + 1].res = "Ok"))

\* sessions two and three both refreshed with the same refresh token and both
\* followed the artists with the access token they got
C1_Witness ==
  \E i \in Idx, j \in Idx :
    /\ i + 1 < j /\ j + 1 \in Idx
    /\ log[i].op = "refresh" /\ log[j].op = "refresh"
    /\ log[i].tok = log[j].tok
    /\ log[i].res = "Ok" /\ log[j].res = "Ok"
    /\ log[i + 1].op = "follow" /\ log[i + 1].res = "Ok"
    /\ log[j + 1].op = "follow" /\ log[j + 1].res = "Ok"

\* C2: a refresh with a refresh token the provider rejects, over a transport
\* that works, fails with InvalidGrant: not with NetworkError, and no client
\* is built from it.
C2_InvalidGrant ==
  \A i \in Idx :
    (log[i].op = "refresh" /\ log[i].tok \notin log[i].valid /\ log[i].net) =>
      /\ log[i].res = "InvalidGrant"
      /\ log[i].newAT = NoToken
      /\ i = Len(log)
      /\ ~spotify.built

\* a refresh was issued with a revoked refresh token and reached the provider
C2_Witness ==
  \E i \in Idx :
    /\ log[i].op = "refresh" /\ log[i].tok \notin log[i].valid /\ log[i].net
    /\ log[i].tok # NoToken

C4_NoRetry ==
  /\ \A i \in Idx :
       log[i].res # "Ok" =>
         /\ i = Len(log)
         /\ pc = "panic"
         /\ panicMsg = MsgOf(log[i])
  /\ \A i \in Idx, j \in Idx :
       (i < j /\ log[i].op = log[j].op) => log[i].session < log[j].session
  /\ \A i \in Idx :
       (log[i].op = "refresh" /\ log[i].res = "InvalidGrant") =>
         /\ ~spotify.built
         /\ \A j \in Idx : j > i => log[j].op # "refresh"

\* the refresh of session three failed with InvalidGrant and ended the program
C4_Witness ==
  /\ pc = "panic"
  /\ log[Len(log)].op = "refresh"
  /\ log[Len(log)].res = "InvalidGrant"
  /\ log[Len(log)].session = LastSession

\* C5: when do_things completes, the followed artists are those followed
\* before its follow_artists call, less the artists of the id set.
C5_RoundTrip ==
  \A i \in Idx :
    (log[i].op = "unfollow" /\ log[i].res = "Ok") =>
      /\ i > 2
      /\ log[i - 2].op = "follow"
      /\ log[i - 2].session = log[i].session
      /\ After(i) = log[i - 2].before \ artists
      /\ After(i) \cap artists = {}

\* do_things completed for a user who followed none of the three artists, and
\* another artist, before
C5_Witness ==
  \E i \in Idx :
    /\ log[i].op = "unfollow" /\ log[i].res = "Ok"
    /\ log[i - 2].before \cap artists = {}
    /\ log[i - 2].before # {}
    /\ After(i) = log[i - 2].before
    /\ log[i].before # After(i)

\* C6 as stated: the page of a successful list_followed_artists after a
\* successful follow_artists includes every artist of the id set, however
\* many other artists the user follows.
C6_AsStated ==
  \A i \in Idx :
    (log[i].op = "list" /\ log[i].res = "Ok") => artists \subseteq log[i].page

\* C6 amended: the page holds followed artists only, and includes every
\* artist of the id set whenever the followed artists number no more than
\* the items of one page.
C6_PageMembership ==
  \A i \in Idx :
    (log[i].op = "list" /\ log[i].res = "Ok") =>
      /\ log[i - 1].op = "follow" /\ log[i - 1].res = "Ok"
      /\ log[i].page \subseteq log[i].before
      /\ artists \subseteq log[i].before
      /\ (Cardinality(log[i].before) <= DefaultLimit =>
            artists \subseteq log[i].page)

\* a page that includes the three artists and another the user followed
C6_Witness ==
  \E i \in Idx :
    /\ log[i].op = "list" /\ log[i].res = "Ok"
    /\ artists \subseteq log[i].page
    /\ log[i].page \cap OtherArtists # {}

\* C7 as stated: after a successful refresh the caller holds the returned
\* refresh token if there is one, and else the one it passed.
C7_AsStated ==
  \A i \in Idx :
    (i = Len(log) /\ log[i].op = "refresh" /\ log[i].res = "Ok") =>
      refresh_token = IF log[i].newRT # NoToken THEN log[i].newRT
                      ELSE log[i].tok

\* C7 amended: after every refresh the caller holds the refresh token of
\* session one, never an empty one, whether or not the TokenPair returned
\* one; every refresh is issued with that refresh token.
C7_KeepsOriginal ==
  \A i \in Idx :
    log[i].op = "refresh" =>
      /\ log[i].tok = log[1].newRT
      /\ log[i].tok # NoToken
      /\ refresh_token = log[1].newRT

\* session two's refresh returned a new refresh token and session three
\* refreshed again
C7_Witness ==
  \E i \in Idx, j \in Idx :
    /\ i < j
    /\ log[i].op = "refresh" /\ log[i].res = "Ok" /\ log[i].newRT # NoToken
    /\ log[j].op = "refresh" /\ log[j].res = "Ok"

\* C9: the first call, and only the first, is the interactive authorization;
\* each later session issues one refresh with the stored refresh token; a
\* follow comes right after the refresh of its session, a list right after
\* the follow and an unfollow right after the list, all three with the access
\* token that refresh returned.
C9_Order ==
  /\ \A i \in Idx : (log[i].op = "authorize") <=> (i = 1)
  /\ \A i \in Idx :
       log[i].op = "refresh" =>
         /\ i > 1
         /\ log[i].session \in 2..LastSession
         /\ log[i].tok = refresh_token
         /\ log[i - 1].op = IF log[i].session = 2 THEN "authorize" ELSE "unfollow"
  /\ \A i \in Idx :
       log[i].op \in RestOps =>
         /\ i > 1
         /\ log[i - 1].res = "Ok"
         /\ log[i - 1].session = log[i].session
         /\ log[i - 1].op = IF log[i].op = "follow" THEN "refresh"
                            ELSE IF log[i].op = "list" THEN "follow"
                            ELSE "list"
         /\ log[i].tok = IF log[i].op = "follow" THEN log[i - 1].newAT
                         ELSE log[i - 1].tok
         /\ log[i].tok # log[1].newAT
  /\ spotify.built => /\ log[Len(log)].session = session
                      /\ spotify.access \in {log[i].newAT : i \in Idx}

\* main ran to its end: nine calls
C9_Witness ==
  /\ pc = "done"
  /\ Len(log) = 9

\* C10: every call but the last succeeded, and the authorization before a
\* refresh returned a refresh token; a panicked program has a failed last
\* step; unfollow is issued at most once in a session.
C10_StopsAtFirstFailure ==
  /\ \A i \in Idx :
       i < Len(log) =>
         /\ log[i].res = "Ok"
         /\ log[i].op = "authorize" => log[i].newRT # NoToken
  /\ pc = "panic" =>
       \/ log[Len(log)].res # "Ok"
       \/ log[Len(log)].op = "authorize" /\ log[Len(log)].newRT = NoToken
  /\ \A i \in Idx, j \in Idx :
       (log[i].op = "unfollow" /\ log[j].op = "unfollow"
          /\ log[i].session = log[j].session) => i = j

\* the program ended in a failed list or unfollow with the artists, which the
\* user did not follow before, still followed
C10_Witness ==
  /\ pc = "panic"
  /\ log[Len(log)].op \in {"list", "unfollow"}
  /\ artists \subseteq followed
  /\ \E i \in Idx : log[i].op = "follow" /\ log[i].before \cap artists = {}

====
